---- MODULE Spec2Model ----
(***************************************************************************)
(* Model of src/src/pages/StressMonitor.js: the StressMonitor component,   *)
(* its three async handlers (loadHistory, simulatePredict, submitFeedback) *)
(* and the HTTP requests they have in flight.                              *)
(*                                                                         *)
(* An async handler runs in two atomic pieces: from the click to its first *)
(* await (the request is issued), and from the arrival of the response to  *)
(* the next await or the end.  State updates made in one piece are         *)
(* committed together and followed by one render.  A render reads the      *)
(* committed state; a handler reads the state of the render it was created *)
(* in, so a set...() call never changes what the running handler reads.    *)
(***************************************************************************)
EXTENDS Integers, Sequences, FiniteSets, TLC

VARIABLES
    stressScore,   \* useState(null), line 18
    sensorData,    \* useState({HRV: null, SpO2: null}), line 19
    history,       \* useState([]), line 20
    lastIndex,     \* useState(null), line 21
    ui,            \* "unmounted" | "mounted" | "crashed" (a render threw)
    alertMsg,      \* the last alert() shown: its text and error.message, <<>> if none
    inflight,      \* the HTTP requests issued and not yet settled
    lastProduced,  \* data of the /predict response the backend produced last, or NoResp
    shown,         \* body and response data of the /predict that wrote stressScore, or NoRequest
    clicks         \* number of button clicks so far

vars == <<stressScore, sensorData, history, lastIndex, ui, alertMsg,
          inflight, lastProduced, shown, clicks>>

display == <<stressScore, sensorData, history, lastIndex>>

----------------------------------------------------------------------------
(* Bounds of the exploration *)

MaxClicks == 2

----------------------------------------------------------------------------
(* JavaScript values *)

Null == [t |-> "null"]
Undefined == [t |-> "undefined"]
Num(n) == [t |-> "number", v |-> n]
Dbl(l) == [t |-> "number", d |-> l]
Arr(s) == [t |-> "array", items |-> s]
NotArray == [t |-> "object"]

IsNumber(x) == x.t = "number"
Truthy(x) == x.t \notin {"null", "undefined"}

----------------------------------------------------------------------------
(* IEEE-754 doubles below 128, exactly: <<a, b, c>> stands for             *)
(* (a * Base^2 + b * Base + c) * 2^-MantissaBits, rounded after every      *)
(* operation to MantissaBits significant bits, ties to even.               *)

MantissaBits == 53
Base == 2^20
TopUnit == 2^(MantissaBits - 40)

RECURSIVE BitLen(_)
BitLen(n) == IF n = 0 THEN 0 ELSE 1 + BitLen(n \div 2)

Norm(l) ==
    LET c  == l[3] % Base
        cb == l[2] + (l[3] \div Base)
        b  == cb % Base
        a  == l[1] + (cb \div Base)
    IN <<a, b, c>>

Round53(l) ==
    LET bits == IF l[1] > 0 THEN 40 + BitLen(l[1]) ELSE 40
        k    == IF bits > MantissaBits THEN bits - MantissaBits ELSE 0
    IN IF k = 0 THEN l
       ELSE LET q    == l[3] \div (2^k)
                t    == l[3] % (2^k)
                half == 2^(k - 1)
                up   == IF t > half \/ (t = half /\ q % 2 = 1) THEN 1 ELSE 0
            IN Norm(<<l[1], l[2], (q + up) * (2^k)>>)

Mul(l, n) == Round53(Norm(<<l[1] * n, l[2] * n, l[3] * n>>))
AddInt(l, n) == Round53(<<l[1] + n * TopUnit, l[2], l[3]>>)
Floor(l) == l[1] \div TopUnit
LtInt(l, n) == l[1] < n * TopUnit
GeInt(l, n) == l[1] >= n * TopUnit

\* Values Math.random() can return: 0 and the largest double below 1.
RandomMin == <<0, 0, 0>>
RandomMax == <<TopUnit - 1, Base - 1, Base - 1>>

\* The results of the two Math.random() calls of one simulatePredict.
RandomDraws == { <<RandomMin, RandomMax>>, <<RandomMax, RandomMin>> }

\* lines 42-45
SimulatedData(r1, r2) ==
    [HRV  |-> Num(Floor(Mul(r1, 51)) + 40),
     SpO2 |-> Dbl(AddInt(Mul(r2, 8), 92))]

----------------------------------------------------------------------------
(* Requests and responses *)

FeedbackLabels == {"bad", "poor", "average", "good", "very_good"}

IndexValues == {3, 7}
ScoreValues == {420}

Row(i) == [index |-> Num(i)]
HistoryLists == {<<>>, <<Row(3)>>, <<Row(3), Row(7)>>}

NoBody == [t |-> "none"]
NoResp == [t |-> "none"]
NoRequest == [t |-> "none"]
Reject == [t |-> "reject"]
Ok(d) == [t |-> "ok", data |-> d]

PredictData(s, i) == [t |-> "object", stress_score |-> s, new_index |-> i]

\* A rejected request, a body that is JSON null, well-formed bodies, and bodies
\* with one field null or absent.
PredictResponses ==
    {Reject, Ok(Null)} \cup
    { Ok(PredictData(Num(s), Num(i))) : s \in ScoreValues, i \in IndexValues } \cup
    { Ok(PredictData(s, Num(7))) : s \in {Null, Undefined} } \cup
    { Ok(PredictData(Num(420), i)) : i \in {Null, Undefined} }

FeedbackResponses ==
    {Reject, Ok(Null), Ok([t |-> "object"])}

HistoryResponses ==
    {Reject, Ok(Null)} \cup
    { Ok([t |-> "object", history |-> h]) :
        h \in {Arr(s) : s \in HistoryLists} \cup {Null, Undefined, NotArray} }

IsObject(resp) == resp.t = "ok" /\ resp.data.t = "object"
WellFormed(resp) ==
    /\ IsObject(resp)
    /\ IsNumber(resp.data.stress_score)
    /\ IsNumber(resp.data.new_index)

\* A request in flight: the click (chain) and handler (origin) it belongs to,
\* what was sent, and the response once the backend has produced it.
Request(chain, origin, kind, body) ==
    [chain |-> chain, origin |-> origin, kind |-> kind, body |-> body,
     resp |-> NoResp]

\* axios.get('http://localhost:8000/history'), line 30
GetHistory(chain, origin) == Request(chain, origin, "history", NoBody)

----------------------------------------------------------------------------
(* Rendering, lines 93-113 and 180-198 *)

RenderThrows(score, sensor, hist) ==
    \/ hist.t # "array"                          \* history.map, line 94
    \/ /\ score # Null                           \* line 180
       /\ \/ ~IsNumber(score)                    \* stressScore.toFixed, line 190
          \/ ~IsNumber(sensor.SpO2)              \* sensorData.SpO2.toFixed, line 197

Commit(score, sensor, hist) ==
    IF RenderThrows(score, sensor, hist) THEN "crashed" ELSE "mounted"

----------------------------------------------------------------------------
NoReading == [HRV |-> Null, SpO2 |-> Null]             \* line 19
SimulateFirst == <<"Please simulate a reading first">>  \* line 72

Init ==
    /\ stressScore = Null
    /\ sensorData = NoReading
    /\ history = Arr(<<>>)
    /\ lastIndex = Null
    /\ ui = "unmounted"
    /\ alertMsg = <<>>
    /\ inflight = {}
    /\ lastProduced = NoResp
    /\ shown = NoRequest
    /\ clicks = 0

\* useEffect(() => { loadHistory(); }, []), lines 24-26
Mount ==
    /\ ui = "unmounted"
    /\ ui' = "mounted"
    /\ inflight' = inflight \cup {GetHistory(0, "mount")}
    /\ UNCHANGED <<display, alertMsg, lastProduced, shown, clicks>>

\* the "Retry Loading History" button, lines 244-252
ClickRetry ==
    /\ ui = "mounted"
    /\ clicks < MaxClicks
    /\ Len(history.items) = 0
    /\ clicks' = clicks + 1
    /\ inflight' = inflight \cup {GetHistory(clicks + 1, "retry")}
    /\ UNCHANGED <<display, ui, alertMsg, lastProduced, shown>>

\* simulatePredict up to its await, lines 41-48
ClickSimulate(r1, r2) ==
    /\ ui = "mounted"
    /\ clicks < MaxClicks
    /\ clicks' = clicks + 1
    /\ inflight' = inflight \cup
           {Request(clicks + 1, "simulate", "predict", SimulatedData(r1, r2))}
    /\ UNCHANGED <<display, ui, alertMsg, lastProduced, shown>>

\* The backend answers a /predict request; the answer is delivered later, and
\* answers to different requests may be delivered in any order.
BackendPredict(req, resp) ==
    /\ req \in inflight
    /\ req.kind = "predict"
    /\ req.resp = NoResp
    /\ inflight' = (inflight \ {req}) \cup {[req EXCEPT !.resp = resp]}
    /\ lastProduced' = IF IsObject(resp) THEN resp.data ELSE lastProduced
    /\ UNCHANGED <<display, ui, alertMsg, shown, clicks>>

\* A reload placed after the try block instead of inside it.
HistoryReloadAlways(req, ok) == {GetHistory(req.chain, req.origin)}

\* loadHistory() called at the end of a handler, lines 58 and 85: reached only
\* when nothing before it in the try block threw
HistoryReload(req, ok) ==
    IF ok THEN {GetHistory(req.chain, req.origin)} ELSE {}

\* error.message for a rejected request, or for the TypeError of reading a
\* field of a null response.data (lines 49 and 83)
ErrorMessage(resp) ==
    IF resp = Reject THEN "Network Error" ELSE "TypeError"

\* simulatePredict after its await, lines 48-62
DeliverPredict(req) ==
    LET data == req.resp.data
        ok   == IsObject(req.resp)
        live == ui = "mounted"
    IN
    /\ req \in inflight
    /\ req.kind = "predict"
    /\ req.resp # NoResp
    /\ IF ok
       THEN /\ stressScore' = IF live THEN data.stress_score ELSE stressScore
            /\ sensorData' = IF live THEN req.body ELSE sensorData
            /\ lastIndex' = IF live THEN data.new_index ELSE lastIndex
            /\ shown' = IF live THEN [body |-> req.body, data |-> data] ELSE shown
            /\ ui' = IF live THEN Commit(stressScore', sensorData', history) ELSE ui
            /\ UNCHANGED <<history, alertMsg>>
       ELSE /\ alertMsg' = <<"Error", ErrorMessage(req.resp)>>        \* line 61
            /\ UNCHANGED <<display, ui, shown>>
    /\ inflight' = (inflight \ {req}) \cup HistoryReload(req, ok)
    /\ UNCHANGED <<lastProduced, clicks>>

\* The check of line 71 left out.
NoIndexUnchecked(li) == FALSE

\* line 71: the handler reads the lastIndex of the render it was created in,
\* whatever setLastIndex was called with at line 68
NoIndex(li) == li = Null

\* The index taken from the end of the loaded history instead of lastIndex.
FeedbackBodyFromHistory(li, feedback) ==
    [index |-> IF Len(history.items) > 0
               THEN history.items[Len(history.items)].index ELSE li,
     feedback |-> feedback]

\* lines 77-80
FeedbackBody(li, feedback) == [index |-> li, feedback |-> feedback]

\* submitFeedback up to its await, lines 65-80
ClickFeedback(feedback) ==
    /\ ui = "mounted"
    /\ stressScore # Null                          \* line 180
    /\ clicks < MaxClicks
    /\ clicks' = clicks + 1
    /\ lastIndex' = IF lastIndex = Null /\ Len(history.items) > 0
                    THEN history.items[Len(history.items)].index
                    ELSE lastIndex
    /\ IF NoIndex(lastIndex)
       THEN /\ alertMsg' = SimulateFirst
            /\ UNCHANGED inflight
       ELSE /\ inflight' = inflight \cup
                   {Request(clicks + 1, "feedback", "feedback",
                            FeedbackBody(lastIndex, feedback))}
            /\ UNCHANGED alertMsg
    /\ UNCHANGED <<stressScore, sensorData, history, ui, lastProduced, shown>>

\* submitFeedback after its await, lines 81-89
DeliverFeedback(req, resp) ==
    /\ req \in inflight
    /\ req.kind = "feedback"
    /\ alertMsg' = IF IsObject(resp)
                   THEN <<"Feedback recorded">>
                   ELSE <<"Feedback error", ErrorMessage(resp)>>
    /\ inflight' = (inflight \ {req}) \cup HistoryReload(req, IsObject(resp))
    /\ UNCHANGED <<display, ui, lastProduced, shown, clicks>>

\* The history emptied when the load fails.
LoadedHistoryCleared(hist, resp) ==
    IF IsObject(resp) /\ Truthy(resp.data.history) THEN resp.data.history ELSE Arr(<<>>)

\* The response appended to what is displayed.
LoadedHistoryAppended(hist, resp) ==
    IF IsObject(resp) /\ Truthy(resp.data.history)
    THEN IF resp.data.history.t = "array"
         THEN Arr(hist.items \o resp.data.history.items) ELSE resp.data.history
    ELSE hist

\* lines 33-35
LoadedHistory(hist, resp) ==
    IF IsObject(resp) /\ Truthy(resp.data.history) THEN resp.data.history ELSE hist

\* loadHistory after its await, lines 30-38
DeliverHistory(req, resp) ==
    /\ req \in inflight
    /\ req.kind = "history"
    /\ history' = IF ui = "mounted" THEN LoadedHistory(history, resp) ELSE history
    /\ ui' = IF ui = "mounted" THEN Commit(stressScore, sensorData, history') ELSE ui
    /\ inflight' = inflight \ {req}
    /\ UNCHANGED <<stressScore, sensorData, lastIndex, alertMsg, lastProduced, shown, clicks>>

Next ==
    \/ Mount
    \/ ClickRetry
    \/ \E r \in RandomDraws : ClickSimulate(r[1], r[2])
    \/ \E feedback \in FeedbackLabels : ClickFeedback(feedback)
    \/ \E req \in inflight : \E resp \in PredictResponses : BackendPredict(req, resp)
    \/ \E req \in inflight : DeliverPredict(req)
    \/ \E req \in inflight : \E resp \in FeedbackResponses : DeliverFeedback(req, resp)
    \/ \E req \in inflight : \E resp \in HistoryResponses : DeliverHistory(req, resp)

Spec == Init /\ [][Next]_vars

----------------------------------------------------------------------------
(* Properties *)

Key(r) == <<r.chain, r.kind>>
\* the requests a step issues, and the requests a step settles
Issued == {r \in inflight' : Key(r) \notin {Key(q) : q \in inflight}}
Settled == {q \in inflight : Key(q) \notin {Key(r) : r \in inflight'}}

LastRow(hist) == hist.items[Len(hist.items)]

\* C1: when a /predict response carrying a numeric stress_score and new_index
\* is delivered to the mounted component, lastIndex becomes that new_index; and
\* a submitFeedback(label) that follows the last such delivery POSTs exactly
\* {index: new_index, feedback: label}.
C1_FeedbackUsesNewIndex ==
    [][ /\ \A req \in Settled :
             (req.kind = "predict" /\ WellFormed(req.resp) /\ ui = "mounted")
                => lastIndex' = req.resp.data.new_index
        /\ \A label \in FeedbackLabels :
             (/\ ClickFeedback(label)
              /\ shown # NoRequest
              /\ WellFormed(Ok(shown.data)))
                => Issued = {Request(clicks', "feedback", "feedback",
                                [index |-> shown.data.new_index, feedback |-> label])}
      ]_vars

C1_Witness ==
    /\ shown # NoRequest
    /\ shown.data = PredictData(Num(420), Num(7))
    /\ lastIndex = Num(7)
    /\ \E req \in inflight :
          /\ req.kind = "feedback"
          /\ req.body = [index |-> Num(7), feedback |-> "good"]

\* C2: a submitFeedback(label) invoked with lastIndex null and a non-empty
\* history POSTs {index: index of the last history entry, feedback: label} in
\* that same invocation and does not show the simulate-first message.
C2_FallbackInSameCall ==
    [][ \A label \in FeedbackLabels :
          (ClickFeedback(label) /\ lastIndex = Null /\ Len(history.items) > 0)
             => /\ alertMsg' # SimulateFirst
                /\ Issued = {Request(clicks', "feedback", "feedback",
                                [index |-> LastRow(history).index, feedback |-> label])}
      ]_vars

\* C3: a submitFeedback invoked with lastIndex null and an empty history shows
\* the simulate-first message, issues no request and leaves stressScore,
\* sensorData, history and lastIndex unchanged.
C3_SimulateFirst ==
    [][ \A label \in FeedbackLabels :
          (ClickFeedback(label) /\ lastIndex = Null /\ Len(history.items) = 0)
             => /\ alertMsg' = SimulateFirst
                /\ inflight' = inflight
                /\ UNCHANGED display
      ]_vars

C3_Witness ==
    /\ alertMsg = SimulateFirst
    /\ stressScore # Null
    /\ lastIndex = Null
    /\ history = Arr(<<>>)
    /\ inflight = {}

\* C4: a handler whose request is rejected writes nothing: the step that issues
\* a request on a click and the step that handles a rejected /predict,
\* /feedback or /history response both leave stressScore, sensorData, history
\* and lastIndex as they were.
C4_FailureKeepsState ==
    [][ /\ \A req \in inflight :
             (\/ DeliverPredict(req) /\ req.resp = Reject
              \/ DeliverFeedback(req, Reject)
              \/ DeliverHistory(req, Reject))
                => UNCHANGED display
        /\ (clicks' # clicks /\ Issued # {}) => UNCHANGED display
      ]_vars

C4_Witness ==
    /\ alertMsg = <<"Error", "Network Error">>
    /\ stressScore = Num(420)
    /\ history = Arr(<<Row(3), Row(7)>>)
    /\ inflight = {}
    /\ clicks = 2

\* C5: a loadHistory whose response carries a list in its history field sets
\* the displayed history to exactly that list, whatever was displayed before.
C5_HistoryReplaced ==
    [][ \A req \in inflight : \A list \in HistoryLists :
          (DeliverHistory(req, Ok([t |-> "object", history |-> Arr(list)]))
             /\ ui = "mounted")
             => history' = Arr(list)
      ]_vars

\* lastIndex 7 came from the fallback of line 68, so <<Row(3), Row(7)>> was
\* displayed; a later load replaced it by the shorter <<Row(3)>>.
C5_Witness ==
    /\ shown # NoRequest
    /\ shown.data.new_index = Null
    /\ lastIndex = Num(7)
    /\ history = Arr(<<Row(3)>>)

InRange(data) ==
    /\ data.HRV.v >= 40 /\ data.HRV.v <= 90
    /\ GeInt(data.SpO2.d, 92) /\ LtInt(data.SpO2.d, 100)

\* C6: every body sent to /predict, and every stored sensor snapshot, has HRV
\* in [40, 90] and SpO2 in [92, 100).
C6_SensorRanges ==
    /\ \A req \in inflight : req.kind = "predict" => InRange(req.body)
    /\ sensorData # NoReading => InRange(sensorData)

\* C7: whatever the responses, the component stays interactive and its state
\* stays well-typed: stressScore is null or a number, lastIndex is null or a
\* number, history is a list, and no render has thrown.
C7_StaysInteractive ==
    /\ stressScore = Null \/ IsNumber(stressScore)
    /\ lastIndex = Null \/ IsNumber(lastIndex)
    /\ history.t = "array"
    /\ ui # "crashed"

\* C8: once every simulatePredict in flight has completed, lastIndex is the
\* new_index of the reading the backend produced last (stated for responses
\* that carry a numeric stress_score and new_index).
C8_LastProducedIndex ==
    (/\ ui = "mounted"
     /\ lastProduced # NoResp
     /\ WellFormed(Ok(lastProduced))
     /\ shown # NoRequest
     /\ WellFormed(Ok(shown.data))
     /\ \A req \in inflight : req.kind # "predict")
        => lastIndex = lastProduced.new_index

\* C9: a step issues at most one request; a POST, or the GET of a mount or
\* retry, is issued only by a click or the mount; the GET /history of a
\* simulate or feedback chain is issued only by the step that settles the
\* successful POST of the same chain (for simulate, the step that wrote score,
\* snapshot and index); a failed POST and a settled GET issue nothing.
C9_SequentialChain ==
    [][ /\ Cardinality(Issued) <= 1
        /\ \A c \in 0..clicks : Cardinality({r \in inflight : r.chain = c}) <= 1
        /\ \A req \in Issued :
             IF req.kind = "history" /\ req.origin \in {"simulate", "feedback"}
             THEN \E post \in Settled :
                    /\ post.chain = req.chain
                    /\ post.origin = req.origin
                    /\ post.kind = IF req.origin = "simulate" THEN "predict" ELSE "feedback"
                    /\ post.kind = "feedback" => alertMsg' = <<"Feedback recorded">>
                    /\ post.kind = "predict" =>
                          /\ IsObject(post.resp)
                          /\ ui = "mounted" =>
                                /\ stressScore' = post.resp.data.stress_score
                                /\ sensorData' = post.body
                                /\ lastIndex' = post.resp.data.new_index
             ELSE /\ Settled = {}
                  /\ \/ clicks' = clicks + 1 /\ req.chain = clicks'
                     \/ ui = "unmounted" /\ req.chain = 0
        /\ \A post \in Settled :
             (\/ post.kind = "history"
              \/ post.kind = "predict" /\ ~IsObject(post.resp)
              \/ post.kind = "feedback" /\ alertMsg' # <<"Feedback recorded">>)
                => Issued = {}
      ]_vars

C9_Witness ==
    /\ stressScore = Num(420)
    /\ alertMsg = <<"Feedback error", "Network Error">>
    /\ \E req \in inflight :
          req.kind = "history" /\ req.origin = "simulate" /\ req.chain = 1
    /\ \A req \in inflight : req.chain # 2

\* C10: the score, the snapshot and the index on display come from one
\* simulate: stressScore is null exactly when sensorData is {null, null}, and
\* a displayed score comes with the body of the request whose response
\* supplied it and with that response's new_index.
C10_OneReading ==
    /\ stressScore = Null <=> sensorData = NoReading
    /\ stressScore # Null =>
          /\ shown # NoRequest
          /\ stressScore = shown.data.stress_score
          /\ sensorData = shown.body
          /\ lastIndex = shown.data.new_index
====
